---------------------------- MODULE Spec2Model ----------------------------
(***************************************************************************)
(* pdf-chef: the text-layout core of the mobile recipe PDF builder.        *)
(*                                                                         *)
(*   src/src/page_builder.py         PageBuilder (line wrapper, draw_text) *)
(*   src/src/mobile_recipe_build.py  RecipePDFBuilder (document flow)      *)
(*                                                                         *)
(* Strings are sequences of one-character strings.  Lengths in points are  *)
(* exact rationals [n, d] in lowest terms (the code computes them in       *)
(* floating point; the model abstracts the rounding away).                 *)
(*                                                                         *)
(*   SpecWrap  one call of PageBuilder._measure_text_block                 *)
(*   Spec      one RecipePDFBuilder from __init__ through build()          *)
(***************************************************************************)
EXTENDS Integers, Sequences, FiniteSets, TLC

VARIABLES
    \* --- one call of PageBuilder._measure_text_block -------------------
    text,             \* argument text
    max_line_width,   \* argument max_line_width
    font_size,        \* argument font_size (0 stands for None / falsy)
    lines,            \* returned list of lines
    text_height,      \* returned height
    measured,         \* the call has returned
    \* --- one RecipePDFBuilder and its build() --------------------------
    config,           \* self.config (layout configuration)
    recipe,           \* self.recipe, in insertion order: <<[name, value], ...>>
    y_position,       \* self.y_position
    section_counter,  \* self.section_counter
    pos,              \* number of recipe keys build() has iterated over
    doc,              \* "Open", "Closed" (saved) or "Failed" (exception left build)
    raised,           \* the exception that left build(), or "none"
    canvas,           \* draw calls issued on self.page.canvas, in order
    visited           \* section names add_section was called with, in order

wrapVars  == <<text, max_line_width, font_size, lines, text_height, measured>>
buildVars == <<config, recipe, y_position, section_counter, pos, doc, raised, canvas,
               visited>>
vars      == <<text, max_line_width, font_size, lines, text_height, measured,
               config, recipe, y_position, section_counter, pos, doc, raised, canvas,
               visited>>

---------------------------------------------------------------------------
(* Exact rational arithmetic standing in for Python floats.                *)

Abs(k) == IF k < 0 THEN -k ELSE k

RECURSIVE GCD(_, _)
GCD(a, b) == IF b = 0 THEN a ELSE GCD(b, a % b)

Norm(n, d) ==
    LET s == IF d < 0 THEN -1 ELSE 1
        g == GCD(Abs(n), Abs(d))
    IN  [n |-> (s * n) \div g, d |-> (s * d) \div g]

RInt(k)    == [n |-> k, d |-> 1]
RAdd(a, b) == Norm(a.n * b.d + b.n * a.d, a.d * b.d)
RSub(a, b) == Norm(a.n * b.d - b.n * a.d, a.d * b.d)
RMul(a, b) == Norm(a.n * b.n, a.d * b.d)
RDiv(a, b) == Norm(a.n * b.d, a.d * b.n)
RLe(a, b)  == a.n * b.d <= b.n * a.d
RLt(a, b)  == a.n * b.d < b.n * a.d

---------------------------------------------------------------------------
(* Bounds of the model.                                                    *)

MaxTextLen   == 5     \* characters in a text handed to the line wrapper
MaxLineWidth == 60    \* largest max_line_width tried, in width units

---------------------------------------------------------------------------
(* Strings.                                                                *)

Chars == {"i", "W", " "}

IsSpace(c) == c = " "

RECURSIVE SeqsUpTo(_, _)
SeqsUpTo(S, n) ==
    IF n = 0 THEN {<<>>}
    ELSE LET shorter == SeqsUpTo(S, n - 1)
         IN  shorter \cup {Append(s, c) : s \in {t \in shorter : Len(t) = n - 1}, c \in S}

\* str.strip(): leading and trailing whitespace removed.
RECURSIVE LStrip(_)
LStrip(s) == IF s # <<>> /\ IsSpace(Head(s)) THEN LStrip(Tail(s)) ELSE s

RECURSIVE RStrip(_)
RStrip(s) ==
    IF s # <<>> /\ IsSpace(s[Len(s)]) THEN RStrip(SubSeq(s, 1, Len(s) - 1)) ELSE s

Strip(s) == RStrip(LStrip(s))

\* str.split() with no separator: the maximal runs of non-whitespace characters.
RECURSIVE SplitFrom(_, _, _)
SplitFrom(s, word, words) ==
    IF s = <<>> THEN (IF word = <<>> THEN words ELSE Append(words, word))
    ELSE IF IsSpace(Head(s))
         THEN SplitFrom(Tail(s), <<>>, IF word = <<>> THEN words ELSE Append(words, word))
         ELSE SplitFrom(Tail(s), Append(word, Head(s)), words)

Split(s) == SplitFrom(s, <<>>, <<>>)

\* " ".join(parts)
RECURSIVE Join(_)
Join(parts) ==
    IF parts = <<>> THEN <<>>
    ELSE IF Len(parts) = 1 THEN parts[1]
    ELSE parts[1] \o <<" ">> \o Join(Tail(parts))

---------------------------------------------------------------------------
(* Text Metrics Provider: canvas.stringWidth(line, font_name, font_size).  *)
(* The width of a string is the sum of its glyphs' advance widths scaled   *)
(* by the font size; the glyph table is the rendering library's.           *)

GlyphUnits(c) == IF c = "W" THEN 4 ELSE 1

RECURSIVE SumUnits(_)
SumUnits(s) == IF s = <<>> THEN 0 ELSE GlyphUnits(Head(s)) + SumUnits(Tail(s))

stringWidth(s, fs) == SumUnits(s) * fs

---------------------------------------------------------------------------
(* PageBuilder                                                              *)

\* PageBuilder.__init__ defaults, as RecipePDFBuilder constructs it:
\* page_width = 90 * mm, page_height = 1000 * mm with mm = 72 / 25.4.
page_width  == Norm(90 * 720, 254)
page_height == Norm(1000 * 720, 254)
page_font_size == 16
line_spacing_factor == Norm(12, 10)

\* `font_size or self.font_size`
EffFontSize(fs) == IF fs = 0 THEN page_font_size ELSE fs

\* One iteration of the wrapping loop over `word`.
\* Faulty variant: on overflow the over-wide candidate is kept as the new
\* current line instead of restarting from the word alone.
WrapWordKeepsLine(current_line, ls, word, mlw, fs) ==
    LET line == Strip(current_line \o <<" ">> \o word)
    IN  IF RLe(RInt(stringWidth(line, fs)), mlw)
        THEN [current_line |-> line, lines |-> ls]
        ELSE [current_line |-> line, lines |-> Append(ls, current_line)]

\* Faulty variant: a candidate that measures exactly max_line_width is
\* treated as too wide.
WrapWordStrict(current_line, ls, word, mlw, fs) ==
    LET line == Strip(current_line \o <<" ">> \o word)
    IN  IF RLt(RInt(stringWidth(line, fs)), mlw)
        THEN [current_line |-> line, lines |-> ls]
        ELSE [current_line |-> word, lines |-> Append(ls, current_line)]

WrapWord(current_line, ls, word, mlw, fs) ==
    LET line == Strip(current_line \o <<" ">> \o word)
    IN  IF RLe(RInt(stringWidth(line, fs)), mlw)
        THEN [current_line |-> line, lines |-> ls]
        ELSE [current_line |-> word, lines |-> Append(ls, current_line)]

RECURSIVE WrapLoop(_, _, _, _, _)
WrapLoop(words, current_line, ls, mlw, fs) ==
    IF words = <<>>
    THEN (IF current_line # <<>> THEN Append(ls, current_line) ELSE ls)
    ELSE LET r == WrapWord(current_line, ls, Head(words), mlw, fs)
         IN  WrapLoop(Tail(words), r.current_line, r.lines, mlw, fs)

\* text_height = len(lines) * line_spacing
\* Faulty variant: one line too many is charged.
TextHeightExtraLine(ls, line_spacing) == RMul(RInt(Len(ls) + 1), line_spacing)

TextHeight(ls, line_spacing) == RMul(RInt(Len(ls)), line_spacing)

\* PageBuilder._measure_text_block: (lines, text_height).
MeasureTextBlock(t, mlw, fs) ==
    LET size         == EffFontSize(fs)
        line_spacing == RMul(RInt(size), line_spacing_factor)
        words        == Split(t)
        ls           == WrapLoop(words, <<>>, <<>>, mlw, size)
    IN  [lines |-> ls, text_height |-> TextHeight(ls, line_spacing)]

\* PageBuilder.draw_text's signature: its parameters, and those without a default.
DrawTextParams ==
    {"x", "y", "text", "max_line_width", "section_counter", "font_name", "font_size",
     "background_color", "padding_top", "padding_bottom",
     "spacing_font_correction_factor", "offset_top"}

DrawTextRequired == {"x", "y", "text", "max_line_width", "section_counter"}

\* Python binds a keyword call when every keyword is a parameter and every
\* parameter without a default is given; otherwise the call raises TypeError
\* before the body runs.
Binds(call) ==
    /\ DOMAIN call \subseteq DrawTextParams
    /\ DrawTextRequired \subseteq DOMAIN call

Arg(call, p, default) == IF p \in DOMAIN call THEN call[p] ELSE default

\* PageBuilder.draw_text, for a call that binds: the draw calls it issues, in
\* order, and the value it returns.  None is "None" for names and colours and
\* 0 for numbers (both falsy).
RECURSIVE DrawLines(_, _, _, _)
DrawLines(ls, x, y_draw, line_spacing) ==
    IF ls = <<>> THEN <<>>
    ELSE <<[op |-> "drawString", x |-> x, y |-> y_draw, text |-> Head(ls)]>>
         \o DrawLines(Tail(ls), x, RSub(y_draw, line_spacing), line_spacing)

\* Faulty variant: the bottom padding is left out of the rectangle's origin.
YBlockNoBottomPadding(y_pos, padding_top, th, padding_bottom) ==
    RSub(RSub(y_pos, padding_top), th)

\* y_block = y_position - padding_top - text_height - padding_bottom
YBlock(y_pos, padding_top, th, padding_bottom) ==
    RSub(RSub(RSub(y_pos, padding_top), th), padding_bottom)

DrawText(call) ==
    LET size             == EffFontSize(Arg(call, "font_size", 0))
        background_color == Arg(call, "background_color", "None")
        padding_top      == Arg(call, "padding_top", RInt(0))
        padding_bottom   == Arg(call, "padding_bottom", RInt(0))
        factor           == Arg(call, "spacing_font_correction_factor", RInt(0))
        offset_top       == Arg(call, "offset_top", RInt(0))
        line_spacing     == RMul(RInt(size), line_spacing_factor)
        correction       == RMul(factor, RInt(size))
        y_pos            == RSub(call.y, correction)
        m                == MeasureTextBlock(call.text, call.max_line_width, size)
        block_height     == RAdd(RAdd(RAdd(m.text_height, padding_top), padding_bottom),
                                 correction)
        y_block          == YBlock(y_pos, padding_top, m.text_height, padding_bottom)
        first            == offset_top # RInt(0) /\ call.section_counter = 0
        rect_height      == IF first THEN RAdd(block_height, offset_top) ELSE block_height
        rect             == IF background_color # "None"
                            THEN <<[op |-> "rect", x |-> RInt(0), y |-> y_block,
                                    width |-> page_width, height |-> rect_height,
                                    fill |-> background_color]>>
                            ELSE <<>>
    IN  [ops |-> rect \o DrawLines(m.lines, call.x, RSub(y_pos, padding_top), line_spacing),
         ret |-> RSub(call.y, block_height)]

---------------------------------------------------------------------------
(* RecipePDFBuilder (mobile_recipe_build.py)                               *)

\* The image files ImageReader can open, by path, with their native size
\* (2:1, 3:4 and 640x427); any other path makes ImageReader raise.
ImageFiles == {<<"a">>, <<"b">>, <<"c">>}

getSize(image_path) ==
    IF image_path = <<"a">> THEN <<400, 200>>
    ELSE IF image_path = <<"b">> THEN <<300, 400>>
    ELSE <<640, 427>>

\* self.max_line_width
BuilderMaxLineWidth(cfg) ==
    RSub(RSub(page_width, RInt(cfg.document_margins.left)),
         RInt(cfg.document_margins.right))

\* _draw_horizontal_line(y) with color None.
DrawHorizontalLine(y) ==
    [op |-> "line", x1 |-> RInt(0), y1 |-> y, x2 |-> page_width, y2 |-> y]

\* image_width = initial_image_width * (image_height / initial_image_height)
\* Faulty variant: the scaling factor is inverted.
ImageWidthInverted(image_height, size) ==
    RMul(RInt(size[1]), RDiv(RInt(size[2]), image_height))

ImageWidth(image_height, size) ==
    RMul(RInt(size[1]), RDiv(image_height, RInt(size[2])))

\* x_image = (page_width - image_width) / 2
ImageX(image_width) == RDiv(RSub(page_width, image_width), RInt(2))

\* self.y_position -= image_height
\* Faulty variants: an extra 0.52 * 20 offset is subtracted after the divider
\* (as in "mobile_recipe_builder copy.py"); the cursor moves up instead of down.
CoverCursorExtraOffset(y, image_height) == RSub(RSub(y, image_height), Norm(104, 10))

CoverCursorUp(y, image_height) == RAdd(y, image_height)

CoverCursor(y, image_height) == RSub(y, image_height)

\* _draw_cover_image.  st = [y_position, section_counter, canvas, raised].
DrawCoverImage(cfg, st, value) ==
    IF value.chars \notin ImageFiles
    THEN [st EXCEPT !.raised = "OSError"]
    ELSE LET image_height == RInt(cfg.layout_cover.image_height)
             image_width  == ImageWidth(image_height, getSize(value.chars))
             y_image      == RSub(st.y_position, image_height)
             y_after      == CoverCursor(st.y_position, image_height)
         IN  [st EXCEPT
                !.y_position = y_after,
                !.canvas = st.canvas \o
                    <<[op |-> "drawImage", path |-> value.chars, x |-> ImageX(image_width),
                       y |-> y_image, width |-> image_width, height |-> image_height],
                      DrawHorizontalLine(y_after)>>]

\* The keyword call _draw_text_block makes to self.page.draw_text.
DrawTextBlockCall(cfg, st, value, font_name, fs) ==
    [x                |-> RInt(cfg.document_margins.left),
     y                |-> st.y_position,
     text             |-> value.chars,
     max_line_width   |-> BuilderMaxLineWidth(cfg),
     font_name        |-> IF font_name = "None" THEN cfg.font.font_name ELSE font_name,
     font_size        |-> IF fs = 0 THEN cfg.font.font_size ELSE fs,
     background_color |-> cfg.colors.palette[(st.section_counter % Len(cfg.colors.palette)) + 1],
     margin_top       |-> RInt(cfg.section_margins.top),
     margin_bottom    |-> RInt(cfg.section_margins.bottom),
     font_shift_factor |-> cfg.font.font_shift_factor]

\* _draw_text_block.
DrawTextBlock(cfg, st, value, font_name, fs) ==
    LET call == DrawTextBlockCall(cfg, st, value, font_name, fs)
    IN  IF ~Binds(call)
        THEN [st EXCEPT !.raised = "TypeError"]
        ELSE IF value.shape # "str"
        THEN [st EXCEPT !.raised = "AttributeError"]
        ELSE LET r == DrawText(call)
             IN  [st EXCEPT
                    !.y_position = r.ret,
                    !.canvas = st.canvas \o r.ops \o <<DrawHorizontalLine(r.ret)>>,
                    !.section_counter = st.section_counter + 1]

\* self.recipe[section_name]
RecipeValue(rcp, section_name) ==
    (CHOOSE e \in {rcp[k] : k \in 1..Len(rcp)} : e.name = section_name).value

\* add_section.
\* Faulty variant: an unrecognized name falls through to the text handler.
AddSectionUnknownMoves(cfg, rcp, st, section_name) ==
    IF section_name = "cover_image"
    THEN DrawCoverImage(cfg, st, RecipeValue(rcp, section_name))
    ELSE IF section_name = "title"
    THEN DrawTextBlock(cfg, st, RecipeValue(rcp, section_name), "Helvetica-Bold", 18)
    ELSE DrawTextBlock(cfg, st, RecipeValue(rcp, section_name), "None", 0)

AddSection(cfg, rcp, st, section_name) ==
    IF section_name = "cover_image"
    THEN DrawCoverImage(cfg, st, RecipeValue(rcp, section_name))
    ELSE IF section_name = "title"
    THEN DrawTextBlock(cfg, st, RecipeValue(rcp, section_name), "Helvetica-Bold", 18)
    ELSE st

---------------------------------------------------------------------------
(* Specification SpecWrap: one call of the line wrapper on any bounded      *)
(* text, width and font size.  The builder's variables are idle.           *)

Texts     == SeqsUpTo(Chars, MaxTextLen)
FontSizes == {0, 12, 18}

BuildIdle ==
    /\ config = <<>>
    /\ recipe = <<>>
    /\ y_position = page_height
    /\ section_counter = 0
    /\ pos = 0
    /\ doc = "Open"
    /\ raised = "none"
    /\ canvas = <<>>
    /\ visited = <<>>

InitWrap ==
    /\ text \in Texts
    /\ max_line_width \in 0..MaxLineWidth
    /\ font_size \in FontSizes
    /\ lines = <<>>
    /\ text_height = RInt(0)
    /\ measured = FALSE
    /\ BuildIdle

Measure ==
    /\ ~measured
    /\ LET r == MeasureTextBlock(text, RInt(max_line_width), font_size)
       IN  /\ lines' = r.lines
           /\ text_height' = r.text_height
    /\ measured' = TRUE
    /\ UNCHANGED <<text, max_line_width, font_size>>
    /\ UNCHANGED buildVars

NextWrap == Measure

SpecWrap == InitWrap /\ [][NextWrap]_vars

---------------------------------------------------------------------------
(* Specification Spec: one RecipePDFBuilder, from construction through      *)
(* build(), for any bounded recipe and layout configuration.               *)

MaxSections == 3     \* keys in a recipe
MaxPalette  == 3     \* colours in the palette

Palette(P) == [k \in 1..P |-> IF k = 1 THEN "c1" ELSE IF k = 2 THEN "c2"
                              ELSE IF k = 3 THEN "c3" ELSE "c4"]

Configs ==
    { [document_margins |-> [left |-> 20, right |-> 20],
       section_margins  |-> [top |-> t, bottom |-> 10],
       layout_cover     |-> [image_height |-> h],
       font             |-> [font_name |-> "Helvetica", font_size |-> 12,
                             font_shift_factor |-> Norm(18, 10)],
       colors           |-> [palette |-> Palette(P)]]
      : t \in {0, 10}, h \in {150, 200}, P \in 1..MaxPalette }

SectionNames == {"cover_image", "title", "description", "nutrition_facts"}

Str(chars) == [shape |-> "str", chars |-> chars]
AList      == [shape |-> "list", chars |-> <<>>]

\* Contents a recipe file may store under a name.
ValuesOf(name) ==
    IF name = "cover_image" THEN {Str(<<"a">>), Str(<<"b">>), Str(<<"c">>), Str(<<"x">>)}
    ELSE IF name = "title" THEN {Str(<<>>), Str(<<"W", "i">>), Str(<<"i", " ", "W">>), AList}
    ELSE {Str(<<"i">>), AList}

Entries == UNION {{[name |-> nm, value |-> v] : v \in ValuesOf(nm)} : nm \in SectionNames}

\* A JSON object: keys are distinct, order is insertion order.
Recipes ==
    {r \in SeqsUpTo(Entries, MaxSections) :
        \A i, j \in 1..Len(r) : i # j => r[i].name # r[j].name}

WrapIdle ==
    /\ text = <<>>
    /\ max_line_width = 0
    /\ font_size = 0
    /\ lines = <<>>
    /\ text_height = RInt(0)
    /\ measured = FALSE

\* RecipePDFBuilder.__init__
Init ==
    /\ config \in Configs
    /\ recipe \in Recipes
    /\ y_position = page_height
    /\ section_counter = 0
    /\ pos = 0
    /\ doc = "Open"
    /\ raised = "none"
    /\ canvas = <<>>
    /\ visited = <<>>
    /\ WrapIdle

\* self.recipe.keys(): the keys in insertion order.
\* Faulty variant: the keys are visited last to first.
KeysReversed(rcp) == [k \in 1..Len(rcp) |-> rcp[Len(rcp) + 1 - k].name]

Keys(rcp) == [k \in 1..Len(rcp) |-> rcp[k].name]

\* How an exception raised by add_section leaves build(): there is no
\* try/except, so the loop and the save after it are abandoned.
\* Faulty variant: the exception is swallowed and the loop goes on.
AfterSectionSwallowed(exception) == "Open"

AfterSection(exception) == IF exception = "none" THEN "Open" ELSE "Failed"

\* build(): one iteration of the loop over self.recipe.keys().
BuildStep ==
    /\ doc = "Open"
    /\ pos < Len(recipe)
    /\ LET section_name == Keys(recipe)[pos + 1]
           st == [y_position |-> y_position, section_counter |-> section_counter,
                  canvas |-> canvas, raised |-> "none"]
           r  == AddSection(config, recipe, st, section_name)
       IN  /\ y_position' = r.y_position
           /\ section_counter' = r.section_counter
           /\ canvas' = r.canvas
           /\ raised' = r.raised
           /\ doc' = AfterSection(r.raised)
           /\ visited' = Append(visited, section_name)
    /\ pos' = pos + 1
    /\ UNCHANGED <<config, recipe>>
    /\ UNCHANGED wrapVars

\* build(): self.page.save() after the loop.
Save ==
    /\ doc = "Open"
    /\ pos = Len(recipe)
    /\ doc' = "Closed"
    /\ canvas' = Append(canvas, [op |-> "save"])
    /\ UNCHANGED <<config, recipe, y_position, section_counter, pos, raised, visited>>
    /\ UNCHANGED wrapVars

Next == BuildStep \/ Save

Spec == Init /\ [][Next]_vars

---------------------------------------------------------------------------
(* Specification SpecDrawText: a client of PageBuilder that stacks text     *)
(* blocks by calling draw_text directly, passing the returned cursor as the *)
(* next call's y and counting the sections itself.                          *)

MaxCalls == 2    \* draw_text calls made by the client

BlockTexts == {<<"W">>, <<"i", " ", "i">>, <<"i", " ", "W">>, <<"W", " ", "W">>}

\* The layout the client draws with: x, max_line_width, font size (0 is None),
\* paddings, correction factor and first-section offset (0 is None).
Layouts ==
    [x : {RInt(20)}, max_line_width : {RInt(60)}, font_size : {0, 12},
     padding_top : {RInt(0), RInt(5)}, padding_bottom : {RInt(0), RInt(10)},
     spacing_font_correction_factor : {RInt(0), Norm(18, 10)},
     offset_top : {RInt(0), RInt(7)}]

InitDrawText ==
    /\ config \in Layouts
    /\ recipe = <<>>
    /\ y_position = page_height
    /\ section_counter = 0
    /\ pos = 0
    /\ doc = "Open"
    /\ raised = "none"
    /\ canvas = <<>>
    /\ visited = <<>>
    /\ WrapIdle

\* y = page.draw_text(x=..., y=y, text=t, ..., section_counter=n); n += 1
\* `visited` logs the calls made.
CallDrawText ==
    /\ Len(visited) < MaxCalls
    /\ \E t \in BlockTexts, background_color \in {"None", "c1"} :
          LET call == [x |-> config.x, y |-> y_position, text |-> t,
                       max_line_width |-> config.max_line_width,
                       section_counter |-> section_counter,
                       font_size |-> config.font_size,
                       background_color |-> background_color,
                       padding_top |-> config.padding_top,
                       padding_bottom |-> config.padding_bottom,
                       spacing_font_correction_factor |->
                           config.spacing_font_correction_factor,
                       offset_top |-> config.offset_top]
              r == DrawText(call)
          IN  /\ Binds(call)
              /\ canvas' = canvas \o r.ops
              /\ y_position' = r.ret
              /\ visited' = Append(visited, call)
    /\ section_counter' = section_counter + 1
    /\ UNCHANGED <<config, recipe, pos, doc, raised>>
    /\ UNCHANGED wrapVars

NextDrawText == CallDrawText

SpecDrawText == InitDrawText /\ [][NextDrawText]_vars

---------------------------------------------------------------------------
(* Specification SpecAfterSave: build() followed by further calls of the    *)
(* public add_section on the same builder.                                 *)

MaxLateCalls == 2    \* add_section calls made after build() has returned

\* add_section(section_name) called by a client once build() has saved the
\* document.  Neither add_section nor PageBuilder looks at whether save()
\* has been called: the handler runs as during build().  An exception goes
\* to the caller.
AddSectionAfterSave ==
    /\ doc = "Closed"
    /\ Len(visited) < Len(recipe) + MaxLateCalls
    /\ \E k \in 1..Len(recipe) :
          LET section_name == Keys(recipe)[k]
              st == [y_position |-> y_position, section_counter |-> section_counter,
                     canvas |-> canvas, raised |-> "none"]
              r  == AddSection(config, recipe, st, section_name)
          IN  /\ y_position' = r.y_position
              /\ section_counter' = r.section_counter
              /\ canvas' = r.canvas
              /\ raised' = r.raised
              /\ visited' = Append(visited, section_name)
    /\ UNCHANGED <<config, recipe, pos, doc>>
    /\ UNCHANGED wrapVars

NextAfterSave == BuildStep \/ Save \/ AddSectionAfterSave

SpecAfterSave == Init /\ [][NextAfterSave]_vars

---------------------------------------------------------------------------
(* RecipePDFBuilder (mobile_recipe_builder.py): the builder with the        *)
(* description, ingredients and instructions sections.  y_position stands   *)
(* for its y_current.                                                       *)

\* The constructor's defaults.
LegacyDefaults ==
    [left_margin |-> 20, right_margin |-> 20, section_spacing |-> 20,
     spacing_font_correction_factor |-> Norm(18, 10), image_height |-> 150]

\* self.max_text_width
MaxTextWidth(cfg) ==
    RSub(RSub(page_width, RInt(cfg.left_margin)), RInt(cfg.right_margin))

\* _measure_text_height: the same wrapping loop as _measure_text_block,
\* keeping the number of lines only.
MeasureTextHeight(t, fs, max_width) == MeasureTextBlock(t, max_width, fs).text_height

\* _draw_cover_image: the divider lies 0.52 * section_spacing above the
\* image's bottom edge.
LegacyDrawCoverImage(cfg, st, value) ==
    IF value.chars \notin ImageFiles
    THEN [st EXCEPT !.raised = "OSError"]
    ELSE LET image_height == RInt(cfg.image_height)
             scaled_width == ImageWidth(image_height, getSize(value.chars))
             y_after      == RSub(st.y_position, image_height)
             line_height  == RAdd(y_after, RMul(Norm(52, 100), RInt(cfg.section_spacing)))
         IN  [st EXCEPT
                !.y_position = y_after,
                !.canvas = st.canvas \o
                    <<[op |-> "drawImage", path |-> value.chars, x |-> ImageX(scaled_width),
                       y |-> y_after, width |-> scaled_width, height |-> image_height],
                      DrawHorizontalLine(line_height)>>]

\* _draw_text: the background is painted, then self.page.draw_text_wrapped is
\* looked up; PageBuilder has no attribute of that name, so the lookup raises
\* AttributeError and the cursor is not assigned.
LegacyDrawText(cfg, st, value, fs, background_color) ==
    LET correction == RMul(cfg.spacing_font_correction_factor, RInt(fs))
        spacing    == RInt(cfg.section_spacing)
        height     == MeasureTextHeight(value.chars, fs, MaxTextWidth(cfg))
        y_rect     == RSub(RSub(RSub(st.y_position, height), correction),
                           RMul(Norm(1, 2), spacing))
    IN  [st EXCEPT
           !.canvas = Append(st.canvas,
                [op |-> "rect", x |-> RInt(0), y |-> y_rect, width |-> page_width,
                 height |-> RAdd(RAdd(height, correction), spacing),
                 fill |-> background_color]),
           !.raised = "AttributeError"]

Bullet == <<"-", " ">>

\* The first loop of _draw_list: wrapped height of each bulleted item plus
\* font_size * bullet_spacing_factor.
RECURSIVE ItemsHeight(_, _, _)
ItemsHeight(items, fs, max_width) ==
    IF items = <<>> THEN RInt(0)
    ELSE RAdd(RAdd(MeasureTextHeight(Bullet \o Head(items), fs, max_width),
                   RMul(RInt(fs), Norm(2, 10))),
              ItemsHeight(Tail(items), fs, max_width))

\* _draw_list with font_size 14: one background for the whole list, the
\* cursor lowered by the font correction, then the item loop, whose first
\* iteration raises AttributeError on self.page.draw_text_wrapped; with no
\* item the loop is skipped and the divider is drawn.
DrawList(cfg, st, items, background_color) ==
    LET correction   == RMul(cfg.spacing_font_correction_factor, RInt(14))
        spacing      == RInt(cfg.section_spacing)
        half         == RMul(Norm(1, 2), spacing)
        total_height == RAdd(RAdd(ItemsHeight(items, 14, MaxTextWidth(cfg)), correction),
                             spacing)
        rect         == [op |-> "rect", x |-> RInt(0),
                         y |-> RAdd(RSub(st.y_position, total_height), half),
                         width |-> page_width, height |-> total_height,
                         fill |-> background_color]
        y_items      == RSub(st.y_position, correction)
    IN  IF items # <<>>
        THEN [st EXCEPT !.canvas = Append(st.canvas, rect),
                        !.y_position = y_items,
                        !.raised = "AttributeError"]
        ELSE [st EXCEPT !.canvas = st.canvas \o <<rect, DrawHorizontalLine(RSub(y_items, half))>>,
                        !.y_position = RSub(y_items, spacing)]

\* draw_instructions with font_size 12: the cursor is lowered by the font
\* correction, then the group loop, whose first iteration raises
\* AttributeError on self.page.draw_text_wrapped; with no group the two
\* closing lines are drawn.
DrawInstructions(cfg, st, instructions) ==
    LET y_first == RSub(st.y_position, RMul(cfg.spacing_font_correction_factor, RInt(12)))
        y_last  == RSub(y_first, RInt(cfg.section_spacing))
    IN  IF instructions # <<>>
        THEN [st EXCEPT !.y_position = y_first, !.raised = "AttributeError"]
        ELSE [st EXCEPT !.canvas = st.canvas \o
                                     <<DrawHorizontalLine(y_first), DrawHorizontalLine(y_last)>>,
                        !.y_position = y_last]

\* add_section
LegacyAddSection(cfg, rcp, st, section_name) ==
    LET value == RecipeValue(rcp, section_name)
    IN  IF section_name = "cover_image" THEN LegacyDrawCoverImage(cfg, st, value)
        ELSE IF section_name = "title"
        THEN LegacyDrawText(cfg, st, value, 18, "(0.87, 0.72, 0.53)")
        ELSE IF section_name = "description"
        THEN LegacyDrawText(cfg, st, value, 12, "(0.87, 0.85, 0.55)")
        ELSE IF section_name = "ingredients"
        THEN DrawList(cfg, st, value.items, "(0.87, 0.72, 0.53)")
        ELSE IF section_name = "instructions"
        THEN DrawInstructions(cfg, st, value.groups)
        ELSE st

---------------------------------------------------------------------------
(* Specification SpecLegacy: build() of the mobile_recipe_builder.py        *)
(* builder over a bounded recipe.                                           *)

Items(items) == [shape |-> "list", items |-> items]
Groups(groups) == [shape |-> "list", groups |-> groups]

Group1 ==
    [section_number |-> 1, section |-> <<"W">>,
     steps |-> <<[step_number |-> 1, text |-> <<"i">>],
                 [step_number |-> 2, text |-> <<"W", " ", "i">>]>>]

Group2 ==
    [section_number |-> 2, section |-> <<"i">>,
     steps |-> <<[step_number |-> 1, text |-> <<"W">>]>>]

LegacyValuesOf(name) ==
    IF name = "cover_image" THEN {Str(<<"a">>), Str(<<"x">>)}
    ELSE IF name = "title" THEN {Str(<<"W", "i">>)}
    ELSE IF name = "description" THEN {Str(<<"i", " ", "W">>)}
    ELSE IF name = "ingredients"
    THEN {Items(<<>>), Items(<<<<"i">>>>), Items(<<<<"i">>, <<"W">>, <<"i", " ", "i">>>>)}
    ELSE {Groups(<<>>), Groups(<<Group1>>), Groups(<<Group1, Group2>>)}

LegacySectionNames == {"cover_image", "title", "description", "ingredients", "instructions"}

LegacyEntries ==
    UNION {{[name |-> nm, value |-> v] : v \in LegacyValuesOf(nm)} : nm \in LegacySectionNames}

LegacyRecipes ==
    {r \in SeqsUpTo(LegacyEntries, MaxSections) :
        \A i, j \in 1..Len(r) : i # j => r[i].name # r[j].name}

\* RecipePDFBuilder.__init__
InitLegacy ==
    /\ config = LegacyDefaults
    /\ recipe \in LegacyRecipes
    /\ y_position = page_height
    /\ section_counter = 0
    /\ pos = 0
    /\ doc = "Open"
    /\ raised = "none"
    /\ canvas = <<>>
    /\ visited = <<>>
    /\ WrapIdle

\* One iteration of build()'s loop.
LegacyBuildStep ==
    /\ doc = "Open"
    /\ pos < Len(recipe)
    /\ LET section_name == Keys(recipe)[pos + 1]
           st == [y_position |-> y_position, section_counter |-> section_counter,
                  canvas |-> canvas, raised |-> "none"]
           r  == LegacyAddSection(config, recipe, st, section_name)
       IN  /\ y_position' = r.y_position
           /\ canvas' = r.canvas
           /\ raised' = r.raised
           /\ doc' = AfterSection(r.raised)
           /\ visited' = Append(visited, section_name)
    /\ pos' = pos + 1
    /\ UNCHANGED <<config, recipe, section_counter>>
    /\ UNCHANGED wrapVars

\* self.page.save() after the loop.
LegacySave ==
    /\ doc = "Open"
    /\ pos = Len(recipe)
    /\ doc' = "Closed"
    /\ canvas' = Append(canvas, [op |-> "save"])
    /\ UNCHANGED <<config, recipe, y_position, section_counter, pos, raised, visited>>
    /\ UNCHANGED wrapVars

NextLegacy == LegacyBuildStep \/ LegacySave

SpecLegacy == InitLegacy /\ [][NextLegacy]_vars

---------------------------------------------------------------------------
(* Properties of the line wrapper, checked under SpecWrap.                 *)

WrapFontSize == EffFontSize(font_size)

LineWidth(line) == stringWidth(line, WrapFontSize)

\* A line that is exactly one word: non-empty, no whitespace.
IsOneWord(line) == line # <<>> /\ \A k \in 1..Len(line) : line[k] # " "

\* C1: joining the returned lines with single spaces reproduces the
\* whitespace-normalized input: no word dropped, duplicated, reordered or
\* split, and no extra leading or trailing space.
C1_JoinReproducesText ==
    measured => Join(lines) = Join(Split(text))

\* C2: every returned line measures at most max_line_width, unless it is a
\* single word that alone measures more than max_line_width.
C2_LinesFit ==
    measured =>
        \A k \in 1..Len(lines) :
            \/ LineWidth(lines[k]) <= max_line_width
            \/ IsOneWord(lines[k]) /\ LineWidth(lines[k]) > max_line_width

\* A first line packing two words within the width, followed by a single
\* over-wide word on a line of its own.
C2_Witness ==
    /\ measured
    /\ Len(lines) = 2
    /\ Len(Split(lines[1])) = 2 /\ LineWidth(lines[1]) <= max_line_width
    /\ IsOneWord(lines[2]) /\ LineWidth(lines[2]) > max_line_width

\* C3: the returned height is count(lines) * font_size * line_height_factor
\* (1.2), and a text without words yields no lines and height 0.
C3_HeightIsLineCount ==
    measured =>
        /\ text_height = Norm(Len(lines) * WrapFontSize * 12, 10)
        /\ (\A k \in 1..Len(text) : text[k] = " ") =>
               (lines = <<>> /\ text_height = RInt(0))

\* Three words wrapped to three lines at the title's font size: 3 * 18 * 1.2.
C3_Witness ==
    /\ measured
    /\ Len(Split(text)) = 3
    /\ Len(lines) = 3
    /\ \A k \in 1..3 : IsOneWord(lines[k])
    /\ font_size = 18
    /\ text_height = Norm(648, 10)

\* C17: no returned line is the empty string, and there are at most as
\* many lines as words (so the block height counts only lines that hold a
\* word), also when the first word is wider than max_line_width.
C17_NoEmptyLine ==
    measured =>
        /\ \A k \in 1..Len(lines) : lines[k] # <<>>
        /\ Len(lines) <= Len(Split(text))

\* C18: greedy wrapping: each returned line followed by a space and the first
\* word of the next line measures strictly more than max_line_width.
C18_Greedy ==
    measured =>
        \A k \in 1..(Len(lines) - 1) :
            LineWidth(lines[k] \o <<" ">> \o Head(Split(lines[k + 1]))) > max_line_width

\* A break after a two-word line whose width is exactly max_line_width:
\* the words that fit stayed together, the next one did not fit.
C18_Witness ==
    /\ measured
    /\ Len(lines) = 2
    /\ Len(Split(lines[1])) = 2
    /\ LineWidth(lines[1]) = max_line_width
    /\ LineWidth(lines[2]) <= max_line_width

---------------------------------------------------------------------------
(* Properties of the document flow, checked under Spec.                    *)

TextNames == {"title"}

\* build() is processing key number pos' in this step.
Step(name) == pos' = pos + 1 /\ recipe[pos'].name = name

\* Key k has been rendered: its handler ran to completion.
Rendered(k) ==
    /\ k <= pos
    /\ recipe[k].name \in {"cover_image"} \cup TextNames
    /\ (k < pos \/ raised = "none")

\* How many text-bearing sections with text content are among the first k keys.
TextSectionsUpTo(k) ==
    Cardinality({j \in 1..k : recipe[j].name \in TextNames /\ recipe[j].value.shape = "str"})

\* The height draw_text charges a title: wrapped block height plus both
\* section margins plus font_shift_factor * font_size.
TitleBlockHeight(value) ==
    RAdd(RAdd(RAdd(MeasureTextBlock(value.chars, BuilderMaxLineWidth(config), 18).text_height,
                   RInt(config.section_margins.top)),
              RInt(config.section_margins.bottom)),
         RMul(config.font.font_shift_factor, RInt(18)))

\* C4: rendering a text section at cursor previous_y leaves the cursor at
\* previous_y - (text_height + top_margin + bottom_margin +
\* font_shift_factor * font_size).
C4_TextCursor ==
    [][(Step("title") /\ recipe[pos'].value.shape = "str")
          => y_position' = RSub(y_position, TitleBlockHeight(recipe[pos'].value))]_vars

\* C5: the cursor never increases from one section to the next, never
\* exceeds the page height, and is below the page height once a section
\* with content has been rendered.
C5_CursorMonotone ==
    /\ [][RLe(y_position', y_position)]_vars
    /\ [](/\ RLe(y_position, page_height)
          /\ (\E k \in 1..pos : Rendered(k)) => RLt(y_position, page_height))

\* Two keys iterated, a cover image among those rendered, build still open.
C5_Witness ==
    /\ pos >= 2
    /\ doc = "Open"
    /\ \E k \in 1..pos : Rendered(k) /\ recipe[k].name = "cover_image"
    /\ RLt(y_position, page_height)

\* C6: the k-th rendered text section is painted with palette[(k-1) mod P].
C6_PaletteCycles ==
    \A j \in 1..pos :
        (recipe[j].name \in TextNames /\ recipe[j].value.shape = "str") =>
            \E c \in 1..Len(canvas) :
                /\ canvas[c].op = "rect"
                /\ canvas[c].fill =
                      config.colors.palette[((TextSectionsUpTo(j) - 1)
                                              % Len(config.colors.palette)) + 1]

\* C7: the section counter equals the number of text-bearing sections among
\* the keys build() has gone through.
C7_CounterCountsText ==
    section_counter = TextSectionsUpTo(pos)

\* C8: a key that is no recognized section raises nothing, draws nothing and
\* leaves the cursor and the counter alone, whatever is stored under it.
C8_UnknownSkipped ==
    [][(pos' = pos + 1 /\ recipe[pos'].name \notin {"cover_image", "title"})
          => /\ raised' = "none"
             /\ doc' = "Open"
             /\ UNCHANGED <<y_position, section_counter, canvas>>]_vars

\* "nutrition_facts" holding a list has just been passed over.
C8_Witness ==
    /\ pos >= 1
    /\ recipe[pos].name = "nutrition_facts"
    /\ recipe[pos].value.shape = "list"
    /\ doc = "Open"
    /\ canvas = <<>>

\* C9: every cover image is drawn H high, w*H/h wide and horizontally
\* centred; the 2:1 image at H = 150 is drawn 300 wide at (page_width - 300)/2.
C9_CoverImageScaled ==
    \A c \in 1..Len(canvas) :
        canvas[c].op = "drawImage" =>
            LET H    == config.layout_cover.image_height
                size == getSize(canvas[c].path)
                w    == Norm(size[1] * H, size[2])
            IN  /\ canvas[c].height = RInt(H)
                /\ canvas[c].width = w
                /\ canvas[c].x = Norm(page_width.n * w.d - w.n * page_width.d,
                                      2 * page_width.d * w.d)
                /\ (canvas[c].path = <<"a">> /\ H = 150) =>
                      /\ canvas[c].width = RInt(300)
                      /\ canvas[c].x = Norm(page_width.n - 300 * page_width.d,
                                            2 * page_width.d)

\* The 2:1 image has been drawn at the configured height of 150.
C9_Witness ==
    /\ config.layout_cover.image_height = 150
    /\ \E c \in 1..Len(canvas) : canvas[c].op = "drawImage" /\ canvas[c].path = <<"a">>

\* C10: a cover image rendered at cursor previous_y has its bottom edge at
\* previous_y - image_height, the divider at that y, and leaves the cursor
\* there.
C10_CoverCursor ==
    [][(Step("cover_image") /\ raised' = "none") =>
          LET bottom == RSub(y_position, RInt(config.layout_cover.image_height))
              n      == Len(canvas)
          IN  /\ y_position' = bottom
              /\ Len(canvas') = n + 2
              /\ SubSeq(canvas', 1, n) = canvas
              /\ canvas'[n + 1].op = "drawImage"
              /\ canvas'[n + 1].y = bottom
              /\ canvas'[n + 2].op = "line"
              /\ canvas'[n + 2].y1 = bottom
              /\ canvas'[n + 2].y2 = bottom]_vars

\* A cover image and its divider are the last things drawn, below the top.
C10_Witness ==
    /\ Len(canvas) >= 2
    /\ canvas[Len(canvas) - 1].op = "drawImage"
    /\ canvas[Len(canvas)].op = "line"
    /\ canvas[Len(canvas)].y1 = y_position
    /\ RLt(y_position, page_height)

\* The save calls among the draw calls.
Saves == {c \in 1..Len(canvas) : canvas[c].op = "save"}

\* C12: build() visits the keys in the recipe's insertion order, each once,
\* and calls save once, after the last key.
C12_OrderThenSave ==
    /\ Len(visited) = pos
    /\ \A k \in 1..pos : visited[k] = recipe[k].name
    /\ Cardinality(Saves) <= 1
    /\ (Saves # {}) <=> (doc = "Closed")
    /\ (Saves # {}) =>
          /\ pos = Len(recipe)
          /\ Saves = {Len(canvas)}

\* A three-key recipe with a cover image in the middle, built and saved.
C12_Witness ==
    /\ doc = "Closed"
    /\ Len(recipe) = 3
    /\ visited = <<"description", "cover_image", "nutrition_facts">>
    /\ Len(canvas) = 3
    /\ canvas[1].op = "drawImage"
    /\ canvas[3].op = "save"

\* C13: an exception raised while a section is rendered leaves build() at
\* once: the failing key is the last one visited, nothing follows it, and
\* save is never called.
C13_ErrorAborts ==
    /\ [](/\ (raised # "none") <=> (doc = "Failed")
          /\ doc = "Failed" => (Saves = {} /\ Len(visited) = pos))
    /\ [][doc # "Failed"]_vars

\* A missing cover image as the second key, with a third key left unvisited
\* and nothing drawn or saved.
C13_Witness ==
    /\ doc = "Failed"
    /\ raised = "OSError"
    /\ pos = 2
    /\ Len(recipe) = 3
    /\ visited = <<"nutrition_facts", "cover_image">>
    /\ canvas = <<>>

\* The draw calls in ops are a rectangle or nothing, then text lines going
\* down the page, then one divider line.
RectTextDivider(ops) ==
    /\ ops # <<>>
    /\ ops[Len(ops)].op = "line"
    /\ \A k \in 1..(Len(ops) - 1) :
          \/ k = 1 /\ ops[k].op = "rect"
          \/ /\ ops[k].op = "drawString"
             /\ (k > 1 /\ ops[k - 1].op = "drawString") => RLt(ops[k].y, ops[k - 1].y)

\* C16: a text section render issues the background rectangle, then the
\* wrapped lines top to bottom, then the divider line; the divider lies on
\* the rectangle's bottom edge, which is the cursor left for the next section.
C16_RectTextThenDivider ==
    [][(Step("title") /\ recipe[pos'].value.shape = "str") =>
        LET new == SubSeq(canvas', Len(canvas) + 1, Len(canvas'))
        IN  /\ RectTextDivider(new)
            /\ new[Len(new)].y1 = y_position'
            /\ new[1].op = "rect" => new[1].y = y_position']_vars

---------------------------------------------------------------------------
(* Properties of the saved document, checked under SpecAfterSave.          *)

\* C11: once save has closed the document it stays closed, and a section
\* render asked for afterwards fails at once instead of drawing.
C11_ClosedRejectsDraws ==
    /\ [][doc = "Closed" => doc' = "Closed"]_vars
    /\ [][(doc = "Closed" /\ visited' # visited
             /\ visited'[Len(visited')] \in {"cover_image", "title"})
          => (raised' # "none" /\ canvas' = canvas /\ y_position' = y_position)]_vars

---------------------------------------------------------------------------
(* Properties of PageBuilder.draw_text, checked under SpecDrawText.        *)

OffsetApplied(call) == call.offset_top # RInt(0) /\ call.section_counter = 0

RECURSIVE LastRect(_)
LastRect(cv) ==
    IF cv[Len(cv)].op = "rect" THEN cv[Len(cv)] ELSE LastRect(SubSeq(cv, 1, Len(cv) - 1))

Rects(cv) == SelectSeq(cv, LAMBDA o : o.op = "rect")

\* text_height + padding_top + padding_bottom + factor * font_size
BlockHeightOf(call) ==
    LET size == EffFontSize(call.font_size)
    IN  RAdd(RAdd(RAdd(MeasureTextBlock(call.text, call.max_line_width, size).text_height,
                       call.padding_top), call.padding_bottom),
             RMul(call.spacing_font_correction_factor, RInt(size)))

\* C19: a draw_text call with a background colour paints first a rectangle of
\* full page width whose bottom edge is the returned cursor; its top edge is
\* the incoming y, so it abuts the previous coloured block's rectangle, unless
\* offset_top is applied (section_counter = 0), when the top edge alone is
\* raised by offset_top; the returned cursor is y minus the block height in
\* both cases.
C19_RectSpansBlock ==
    [][visited' # visited =>
        LET call == visited'[Len(visited')]
            new  == SubSeq(canvas', Len(canvas) + 1, Len(canvas'))
            top  == RAdd(new[1].y, new[1].height)
        IN  call.background_color # "None" =>
              /\ new # <<>>
              /\ new[1].op = "rect"
              /\ new[1].x = RInt(0)
              /\ new[1].width = page_width
              /\ new[1].y = y_position'
              /\ y_position' = RSub(y_position, BlockHeightOf(call))
              /\ top = (IF OffsetApplied(call) THEN RAdd(y_position, call.offset_top)
                        ELSE y_position)
              /\ (/\ visited # <<>>
                  /\ visited[Len(visited)].background_color # "None"
                  /\ ~OffsetApplied(call))
                 => top = LastRect(canvas).y]_vars

\* Two coloured blocks with paddings, correction and offset_top: the first
\* rectangle carries the offset, the second block wraps onto two lines and
\* its rectangle starts where the first one ends.
C19_Witness ==
    /\ Len(visited) = 2
    /\ visited[1].background_color = "c1" /\ visited[2].background_color = "c1"
    /\ visited[1].offset_top = RInt(7)
    /\ visited[1].padding_top = RInt(5) /\ visited[1].padding_bottom = RInt(10)
    /\ visited[1].spacing_font_correction_factor = Norm(18, 10)
    /\ visited[1].text = <<"W">>
    /\ visited[2].text = <<"i", " ", "W">>
    /\ Len(Rects(canvas)) = 2
    /\ Rects(canvas)[1].height = RAdd(BlockHeightOf(visited[1]), RInt(7))
    /\ Rects(canvas)[2].height = BlockHeightOf(visited[2])
    /\ Len(SelectSeq(canvas, LAMBDA o : o.op = "drawString")) = 3
    /\ y_position = Rects(canvas)[2].y

---------------------------------------------------------------------------
(* Properties of the list and instruction sections, checked under          *)
(* SpecLegacy.                                                             *)

Strings(ops) == SelectSeq(ops, LAMBDA o : o.op = "drawString")

TextsOf(ops) == [k \in 1..Len(Strings(ops)) |-> Strings(ops)[k].text]

\* C14: an ingredients list whose N bulleted items each fit on one line is
\* drawn as N text lines, the items in list order each behind the bullet
\* marker, over exactly one background rectangle that contains every line.
C14_ListLinesAndBackground ==
    [][(/\ Step("ingredients")
        /\ \A k \in 1..Len(recipe[pos'].value.items) :
              RLe(RInt(stringWidth(Bullet \o recipe[pos'].value.items[k], 14)),
                  MaxTextWidth(config)))
       => LET items == recipe[pos'].value.items
              new   == SubSeq(canvas', Len(canvas) + 1, Len(canvas'))
              rects == Rects(new)
          IN  /\ TextsOf(new) = [k \in 1..Len(items) |-> Bullet \o items[k]]
              /\ Len(rects) = 1
              /\ \A k \in 1..Len(Strings(new)) :
                    /\ RLe(rects[1].y, Strings(new)[k].y)
                    /\ RLe(Strings(new)[k].y, RAdd(rects[1].y, rects[1].height))]_vars

Digit(n) == <<"0", "1", "2", "3", "4", "5", "6", "7", "8", "9">>[n + 1]

\* str(n) for a natural number.
RECURSIVE IntStr(_)
IntStr(n) == IF n < 10 THEN <<Digit(n)>> ELSE IntStr(n \div 10) \o <<Digit(n % 10)>>

StepLines(group, steps) ==
    [k \in 1..Len(steps) |->
        IntStr(group.section_number) \o <<".">> \o IntStr(steps[k].step_number)
            \o <<" ">> \o steps[k].text]

\* The lines an instructions section is to show: per group its title line,
\* then its step lines.
RECURSIVE InstructionLines(_)
InstructionLines(groups) ==
    IF groups = <<>> THEN <<>>
    ELSE <<IntStr(Head(groups).section_number) \o <<".", " ">> \o Head(groups).section>>
         \o StepLines(Head(groups), Head(groups).steps)
         \o InstructionLines(Tail(groups))

\* C15: an instructions section is drawn group by group in input order, the
\* line "group_number. group_title" and then one line
\* "group_number.step_number step_text" per step, each lower on the page than
\* the one before, and paints no background rectangle.
C15_InstructionOrder ==
    [][Step("instructions")
       => LET new == SubSeq(canvas', Len(canvas) + 1, Len(canvas'))
          IN  /\ TextsOf(new) = InstructionLines(recipe[pos'].value.groups)
              /\ Rects(new) = <<>>
              /\ \A k \in 2..Len(Strings(new)) :
                    RLt(Strings(new)[k].y, Strings(new)[k - 1].y)
              /\ RLt(y_position', y_position)]_vars

===========================================================================
